---------------------------- MODULE Spec2Model ----------------------------
(***************************************************************************)
(* A model of wxkbd (src/wxkbd.c): a daemon that applies the key repeat    *)
(* rate and delay to the X server's core keyboard at startup and again     *)
(* whenever an XInput hierarchy event reports an added device.             *)
(*                                                                         *)
(* The program is one sequential process; pc is its position in main().    *)
(* The X server and libxcb are the environment: every library call draws   *)
(* its result from the results the call can return.                        *)
(***************************************************************************)
EXTENDS Integers, Sequences, FiniteSets, TLC

VARIABLES
    pc,            \* position of main(): see the actions below
    opt,           \* main's local opt: the last value returned by getopt
    optarg,        \* getopt's global optarg: points to a character sequence
    optind,        \* number of options getopt has consumed so far
    rate,          \* main's local rate (uint16_t)
    delay,         \* main's local delay (uint16_t)
    conn,          \* the xcb connection: "none", "open", "failed", "closed"
    has_error,     \* the connection's error flag (peer closed, I/O error)
    xinput_query,  \* points to the reply of xcb_get_extension_data(&xcb_input_id)
    xkb_query,     \* points to the reply of xcb_get_extension_data(&xcb_xkb_id)
    use_extension, \* outcome of the XkbUseExtension handshake
    outq,          \* requests written to the connection, not yet flushed
    wire,          \* requests delivered to the server, in order
    pending,       \* the request whose reply or error is awaited, or NULL
    event,         \* main's local event: points to the event being handled
    stdout,        \* lines written to standard output
    stderr,        \* lines written to standard error
    exit_code,     \* the process's exit status, -1 while it runs
    flushes,       \* number of explicit xcb_flush calls made
    invalidArg,    \* history: an invalid command-line argument was met
    applyCalls,    \* history: calls of set_repeat_rate_and_delay
    applyArgs,     \* history: the (rate, delay) of the last such call
    nEvents,       \* history: events returned by xcb_wait_for_event
    nQualifying,   \* history: of those, the device-added hierarchy events
    nFailed,       \* history: set-controls requests answered by an error
    xkb_ctrls,     \* the server's controls of the core keyboard
    lastApply,     \* the last call of set_repeat_rate_and_delay: what it
                   \* requested, whether it waited, what it returned
    nSetControls   \* history: calls of xcb_xkb_set_controls_checked

vars == <<pc, opt, optarg, optind, rate, delay, conn, has_error, xinput_query,
          xkb_query, use_extension, outq, wire, pending, event, stdout, stderr,
          exit_code, flushes, invalidArg, applyCalls, applyArgs, nEvents,
          nQualifying, nFailed, xkb_ctrls, lastApply, nSetControls>>

NULL == "NULL"

\* a pointer: the null pointer, or a pointer to a value
NullPtr == <<>>
Ptr(x) == <<x>>
Deref(p) == p[1]

----------------------------------------------------------------------------
(* Bounds of the model *)

\* options on the command line
MaxArgs == 2
\* events the server delivers in one run
MaxEvents == 2
\* digits of a numeric argument in the exhaustive parsing specification
MaxDigits == 5

----------------------------------------------------------------------------
(* Program constants *)

default_rate == 70
default_delay == 250
UINT16_MAX == 65535
MaxRate == 1000
MinRate == 1
MinDelay == 1
MsPerSecond == 1000
EXIT_SUCCESS == 0
EXIT_FAILURE == 1
XCB_GE_GENERIC == 35
XCB_INPUT_HIERARCHY == 11
XCB_INPUT_HIERARCHY_MASK_MASTER_ADDED == 1
XCB_INPUT_HIERARCHY_MASK_SLAVE_ADDED == 4
SentEventBit == 128
XCB_XKB_ID_USE_CORE_KBD == 256
XCB_XKB_BOOL_CTRL_REPEAT_KEYS == 1
PerKeyRepeatLen == 32

----------------------------------------------------------------------------
(* Numeric strings: str_to_uint16 and the strtol it calls *)

Digits == {"0", "1", "2", "3", "4", "5", "6", "7", "8", "9"}
DigitVal == [c \in Digits |->
               CASE c = "0" -> 0 [] c = "1" -> 1 [] c = "2" -> 2 [] c = "3" -> 3
                 [] c = "4" -> 4 [] c = "5" -> 5 [] c = "6" -> 6 [] c = "7" -> 7
                 [] c = "8" -> 8 [] c = "9" -> 9]
Whitespace == {" "}

\* index of the first character of str at or after i that is not white space
RECURSIVE SkipSpace(_, _)
SkipSpace(str, i) ==
    IF i <= Len(str) /\ str[i] \in Whitespace THEN SkipSpace(str, i + 1) ELSE i

\* accumulate the decimal digits of str from index i: <<value, end index>>
RECURSIVE ScanDigits(_, _, _)
ScanDigits(str, i, acc) ==
    IF i <= Len(str) /\ str[i] \in Digits
    THEN ScanDigits(str, i + 1, acc * 10 + DigitVal[str[i]])
    ELSE <<acc, i>>

\* strtol(str, &end, 10): optional white space, optional sign, digits.
\* end is the index of the first character not converted; when no digit is
\* found no conversion is performed and end is the start of the string.
\* Within MaxDigits the value never reaches LONG_MAX, so ERANGE is not set.
strtol(str) ==
    LET s == SkipSpace(str, 1)
        neg == s <= Len(str) /\ str[s] = "-"
        d == IF s <= Len(str) /\ str[s] \in {"-", "+"} THEN s + 1 ELSE s
        r == ScanDigits(str, d, 0)
    IN  IF r[2] = d
        THEN [conversion |-> 0, end |-> 1, erange |-> FALSE]
        ELSE [conversion |-> IF neg THEN 0 - r[1] ELSE r[1],
              end |-> r[2], erange |-> FALSE]

str_to_uint16_lax(str) ==
    LET c == strtol(str)
    IN  IF c.erange \/ c.conversion < 0 \/ c.conversion > UINT16_MAX
           \/ c.end = 1
        THEN [ok |-> FALSE, res |-> 0]
        ELSE [ok |-> TRUE, res |-> c.conversion % (UINT16_MAX + 1)]

\* str_to_uint16: [ok, res]; res is meaningful only when ok
str_to_uint16(str) ==
    LET c == strtol(str)
    IN  IF c.erange \/ c.conversion < 0 \/ c.conversion > UINT16_MAX
           \/ c.end = 1 \/ c.end <= Len(str)
        THEN [ok |-> FALSE, res |-> 0]
        ELSE [ok |-> TRUE, res |-> c.conversion % (UINT16_MAX + 1)]

\* the range tests main applies after a successful conversion
RateInRangeNoLower(r) == ~(r > MaxRate)
RateInRange(r) == ~(r > MaxRate \/ r < MinRate)
DelayInRange(d) == ~(d < MinDelay)

\* the numeric arguments tried in the full program
ArgStrings ==
    { <<"1">>, <<"0">>, <<"1", "0", "0", "0">>,
      <<"1", "0", "0", "1">>, <<"2", "0", "0", "0">>,
      <<"6", "5", "5", "3", "5">>, <<"6", "5", "5", "3", "6">>,
      <<"-", "5">>, <<"7", "x">>, <<"a", "b", "c">>, <<>> }


----------------------------------------------------------------------------
(* Events and the classifier is_hierarchy_event *)

\* the major opcodes the server has assigned to its extensions
ServerOpcode == [xinput |-> 131, xkb |-> 135]
ExtOpcodes == {ServerOpcode.xinput, ServerOpcode.xkb}

\* bitwise AND of two naturals
RECURSIVE BitAnd(_, _)
BitAnd(a, b) ==
    IF a = 0 \/ b = 0 THEN 0
    ELSE (IF a % 2 = 1 /\ b % 2 = 1 THEN 1 ELSE 0)
         + 2 * BitAnd(a \div 2, b \div 2)

\* XCB_EVENT_RESPONSE_TYPE: the response type without the sent-event bit
XCB_EVENT_RESPONSE_TYPE(e) == e.response_type % SentEventBit

\* the events the server delivers: errors of unchecked requests (0), generic events,
\* generic events with the sent-event bit; of either extension; hierarchy
\* events (11) and device-changed events (1); flags of every class of change
\* (1 master added, 2 master removed, 4 slave added, 8 slave removed,
\*  64 device enabled, 128 device disabled)
Events ==
    [response_type : {0, XCB_GE_GENERIC, XCB_GE_GENERIC + SentEventBit},
     extension : ExtOpcodes,
     event_type : {1, XCB_INPUT_HIERARCHY},
     flags : {0, 1, 2, 4, 6, 128}]

AddedMask ==
    XCB_INPUT_HIERARCHY_MASK_MASTER_ADDED + XCB_INPUT_HIERARCHY_MASK_SLAVE_ADDED

is_hierarchy_event_any_extension(e, xinput_info) ==
    IF XCB_EVENT_RESPONSE_TYPE(e) # XCB_GE_GENERIC THEN FALSE
    ELSE IF e.event_type # XCB_INPUT_HIERARCHY THEN FALSE
    ELSE IF BitAnd(e.flags, AddedMask) = 0 THEN FALSE
    ELSE TRUE

\* lines 39-58
is_hierarchy_event(e, xinput_info) ==
    IF XCB_EVENT_RESPONSE_TYPE(e) # XCB_GE_GENERIC THEN FALSE
    ELSE IF e.extension # xinput_info.major_opcode
            \/ e.event_type # XCB_INPUT_HIERARCHY THEN FALSE
    ELSE IF BitAnd(e.flags, AddedMask) = 0 THEN FALSE
    ELSE TRUE

----------------------------------------------------------------------------
(* Requests *)

\* the classes of hierarchy change (the flags of a hierarchy event) that an
\* XI2 event mask selects: the hierarchy bit selects the event type as a
\* whole, an event mask has no bit for a single class of change
HierarchyClasses == {1, 2, 4, 8, 16, 32, 64, 128}
SelectedClasses(mask) ==
    IF mask = "XCB_INPUT_XI_EVENT_MASK_HIERARCHY" THEN HierarchyClasses ELSE {}

SelectEventsRequestOneDevice ==
    [req |-> "xi_select_events", window |-> "root", num_mask |-> 1,
     deviceid |-> "XCB_INPUT_DEVICE_ALL_MASTER", mask_len |-> 1,
     mask |-> "XCB_INPUT_XI_EVENT_MASK_HIERARCHY"]

\* xcb_input_xi_select_events(connection, root, 1, &input_mask.info)
SelectEventsRequest ==
    [req |-> "xi_select_events", window |-> "root", num_mask |-> 1,
     deviceid |-> "XCB_INPUT_DEVICE_ALL", mask_len |-> 1,
     mask |-> "XCB_INPUT_XI_EVENT_MASK_HIERARCHY"]

\* xcb_xkb_use_extension(connection, major, minor)
UseExtensionRequest ==
    [req |-> "xkb_use_extension", wantedMajor |-> "XCB_XKB_MAJOR_VERSION",
     wantedMinor |-> "XCB_XKB_MINOR_VERSION"]

\* const uint8_t per_key_repeat[...] = {0}
per_key_repeat == [i \in 1..PerKeyRepeatLen |-> 0]

\* xcb_xkb_set_controls_checked(connection, ...): every argument of the call,
\* in the order of the call
SetControlsFields(spec, enabled, change, d, interval) ==
    [req |-> "xkb_set_controls",
     deviceSpec |-> spec,
     affectInternalRealMods |-> 0, internalRealMods |-> 0,
     affectIgnoreLockRealMods |-> 0, ignoreLockRealMods |-> 0,
     affectInternalVirtualMods |-> 0, internalVirtualMods |-> 0,
     affectIgnoreLockVirtualMods |-> 0, ignoreLockVirtualMods |-> 0,
     mouseKeysDfltBtn |-> 0, groupsWrap |-> 0, accessXOptions |-> 0,
     affectEnabledControls |-> enabled, enabledControls |-> enabled,
     changeControls |-> change,
     repeatDelay |-> d, repeatInterval |-> interval,
     slowKeysDelay |-> 0, debounceDelay |-> 0, mouseKeysDelay |-> 0,
     mouseKeysInterval |-> 0, mouseKeysTimeToMax |-> 0,
     mouseKeysMaxSpeed |-> 0, mouseKeysCurve |-> 0, accessXTimeout |-> 0,
     accessXTimeoutMask |-> 0, accessXTimeoutValues |-> 0,
     accessXTimeoutOptionsMask |-> 0, accessXTimeoutOptionsValues |-> 0,
     perKeyRepeat |-> per_key_repeat]

repeat_interval_rounded(r) == (MsPerSecond + r \div 2) \div r

\* line 71: repeat_interval = 1000 / rate
repeat_interval(r) == MsPerSecond \div r

SetControlsRequestEnabling(r, d) ==
    SetControlsFields(XCB_XKB_ID_USE_CORE_KBD, XCB_XKB_BOOL_CTRL_REPEAT_KEYS,
                      XCB_XKB_BOOL_CTRL_REPEAT_KEYS, d, repeat_interval(r))

\* lines 83-87
SetControlsRequest(r, d) ==
    SetControlsFields(XCB_XKB_ID_USE_CORE_KBD, 0,
                      XCB_XKB_BOOL_CTRL_REPEAT_KEYS, d, repeat_interval(r))

\* protocol error codes of a failed request (2 BadValue, 10 BadAccess)
ErrorCodes == {2, 10}

\* the server's controls of the core keyboard before any client changes
\* them: key repeat enabled, 660 ms delay, 40 ms interval
ServerControls ==
    [enabledControls |-> {XCB_XKB_BOOL_CTRL_REPEAT_KEYS},
     repeatDelay |-> 660, repeatInterval |-> 40]

\* what the server does with a set-controls request it accepts: the controls
\* named in affectEnabledControls are switched as enabledControls says, and
\* the repeat-keys bit of changeControls makes it take the delay and interval
ServerSetControls(ctrls, req) ==
    [enabledControls |->
        {c \in {XCB_XKB_BOOL_CTRL_REPEAT_KEYS} :
            IF BitAnd(req.affectEnabledControls, c) # 0
            THEN BitAnd(req.enabledControls, c) # 0
            ELSE c \in ctrls.enabledControls},
     repeatDelay |->
        IF BitAnd(req.changeControls, XCB_XKB_BOOL_CTRL_REPEAT_KEYS) # 0
        THEN req.repeatDelay ELSE ctrls.repeatDelay,
     repeatInterval |->
        IF BitAnd(req.changeControls, XCB_XKB_BOOL_CTRL_REPEAT_KEYS) # 0
        THEN req.repeatInterval ELSE ctrls.repeatInterval]


----------------------------------------------------------------------------
(* What the inputs mean, stated without the program's code; the history    *)
(* variables and the properties are written with these. A numeric argument *)
(* is optional blanks, an optional sign and one or more digits.            *)

RECURSIVE DropBlanks(_)
DropBlanks(str) ==
    IF str # <<>> /\ Head(str) \in Whitespace THEN DropBlanks(Tail(str)) ELSE str

Unsigned(str) ==
    LET t == DropBlanks(str)
    IN  IF t # <<>> /\ Head(t) \in {"+", "-"} THEN Tail(t) ELSE t

IsNegative(str) ==
    LET t == DropBlanks(str) IN t # <<>> /\ Head(t) = "-"

IsInteger(str) ==
    /\ Unsigned(str) # <<>>
    /\ \A i \in 1..Len(Unsigned(str)) : Unsigned(str)[i] \in Digits

RECURSIVE Pow10(_)
Pow10(n) == IF n = 0 THEN 1 ELSE 10 * Pow10(n - 1)

RECURSIVE Magnitude(_)
Magnitude(ds) ==
    IF ds = <<>> THEN 0
    ELSE DigitVal[Head(ds)] * Pow10(Len(ds) - 1) + Magnitude(Tail(ds))

IntegerValue(str) ==
    IF IsNegative(str) THEN 0 - Magnitude(Unsigned(str))
    ELSE Magnitude(Unsigned(str))

ValidRateArg(str) ==
    IsInteger(str) /\ 1 <= IntegerValue(str) /\ IntegerValue(str) <= 1000
ValidDelayArg(str) ==
    IsInteger(str) /\ 1 <= IntegerValue(str) /\ IntegerValue(str) <= 65535

\* a device-added hierarchy event of the input extension, by its meaning
FlagNames(f) ==
    {n \in {1, 2, 4, 8, 16, 32, 64, 128} : (f \div n) % 2 = 1}
Qualifies(e, opcode) ==
    /\ e.response_type \in {35, 163}
    /\ e.extension = opcode
    /\ e.event_type = 11
    /\ FlagNames(e.flags) \cap {1, 4} # {}

----------------------------------------------------------------------------
(* A call of the applicator: the requests it made, whether it waited for   *)
(* their outcome, the error code it got, and the value it returned         *)

NoApply ==
    [requests |-> 0, checked |-> FALSE, error |-> 0, returned |-> FALSE,
     ret |-> FALSE]

----------------------------------------------------------------------------
(* The initial state: main's locals at line 144, nothing connected *)

Init ==
    /\ pc = "getopt"
    /\ opt = NULL
    /\ optarg = NullPtr
    /\ optind = 0
    /\ rate = default_rate
    /\ delay = default_delay
    /\ conn = "none"
    /\ has_error = FALSE
    /\ xinput_query = NullPtr
    /\ xkb_query = NullPtr
    /\ use_extension = "none"
    /\ outq = <<>>
    /\ wire = <<>>
    /\ pending = NULL
    /\ event = NullPtr
    /\ stdout = <<>>
    /\ stderr = <<>>
    /\ exit_code = -1
    /\ flushes = 0
    /\ invalidArg = FALSE
    /\ applyCalls = 0
    /\ applyArgs = <<>>
    /\ nEvents = 0
    /\ nQualifying = 0
    /\ nFailed = 0
    /\ xkb_ctrls = ServerControls
    /\ lastApply = NoApply
    /\ nSetControls = 0

cli == <<opt, optarg, optind>>
cfg == <<rate, delay>>
xstate == <<conn, has_error, xinput_query, xkb_query, use_extension, outq,
            wire, pending, event, flushes, xkb_ctrls>>
hist == <<applyCalls, applyArgs, nEvents, nQualifying, nFailed, lastApply,
          nSetControls>>

----------------------------------------------------------------------------
(* err, usage, version: each ends the process *)

\* a line of output: its text and the number formatted into it (0: none)
Line(msg, arg) == [text |-> msg, arg |-> arg]

\* err(fmt, ...): the message goes to stderr, exit(EXIT_FAILURE)
err(msg, arg) ==
    /\ stderr' = Append(stderr, Line(msg, arg))
    /\ exit_code' = EXIT_FAILURE
    /\ pc' = "exited"
    /\ UNCHANGED stdout

\* usage(progname, exit_code): the usage line goes to stdout, exit(exit_code)
usage(code) ==
    /\ stdout' = Append(stdout, Line("Usage: wxkbd [-V] [-r rate] [-d delay]", 0))
    /\ exit_code' = code
    /\ pc' = "exited"
    /\ UNCHANGED stderr

\* version(): name and version go to stdout, exit(EXIT_SUCCESS)
version ==
    /\ stdout' = Append(stdout, Line("wxkbd 1.0", 0))
    /\ exit_code' = EXIT_SUCCESS
    /\ pc' = "exited"
    /\ UNCHANGED stderr

----------------------------------------------------------------------------
(* The option loop, lines 156-181 *)

\* getopt(argc, argv, "hVr:d:"): -1 at the end of the options; an option
\* letter, with optarg set for r and d; or '?', after a message on stderr,
\* for an unknown option and for r or d without its value
Getopt(strs) ==
    /\ pc = "getopt"
    /\ \/ /\ opt' = "-1"
          /\ optarg' = NullPtr
          /\ pc' = "connect"
          /\ UNCHANGED <<optind, stderr, invalidArg>>
       \/ /\ optind < MaxArgs
          /\ optind' = optind + 1
          /\ pc' = "switch"
          /\ \/ /\ opt' \in {"h", "V"}
                /\ optarg' = NullPtr
                /\ UNCHANGED <<stderr, invalidArg>>
             \/ /\ opt' \in {"r", "d"}
                /\ optarg' \in {Ptr(a) : a \in strs}
                /\ UNCHANGED <<stderr, invalidArg>>
             \/ /\ opt' = "?"
                /\ optarg' = NullPtr
                /\ \E m \in {"invalid option", "option requires an argument"} :
                       stderr' = Append(stderr, Line(m, 0))
                /\ invalidArg' = TRUE
    /\ UNCHANGED <<cfg, xstate, hist, stdout, exit_code>>

\* case 'h'
CaseH ==
    /\ pc = "switch" /\ opt = "h"
    /\ usage(EXIT_SUCCESS)
    /\ UNCHANGED <<cli, cfg, xstate, hist, invalidArg>>

\* case 'V'
CaseV ==
    /\ pc = "switch" /\ opt = "V"
    /\ version
    /\ UNCHANGED <<cli, cfg, xstate, hist, invalidArg>>

\* case 'r'
CaseR ==
    /\ pc = "switch" /\ opt = "r"
    /\ invalidArg' = (invalidArg \/ ~ValidRateArg(Deref(optarg)))
    /\ LET c == str_to_uint16(Deref(optarg))
       IN  IF ~c.ok THEN usage(EXIT_FAILURE) /\ UNCHANGED rate
           ELSE /\ rate' = c.res
                /\ IF ~RateInRange(c.res)
                   THEN err("Key repeat rate has to be between 1 and 1000.", 0)
                   ELSE pc' = "getopt" /\ UNCHANGED <<stdout, stderr, exit_code>>
    /\ UNCHANGED <<cli, delay, xstate, hist>>

\* case 'd'
CaseD ==
    /\ pc = "switch" /\ opt = "d"
    /\ invalidArg' = (invalidArg \/ ~ValidDelayArg(Deref(optarg)))
    /\ LET c == str_to_uint16(Deref(optarg))
       IN  IF ~c.ok THEN usage(EXIT_FAILURE) /\ UNCHANGED delay
           ELSE /\ delay' = c.res
                /\ IF ~DelayInRange(c.res)
                   THEN err("Key repeat delay has to be greater than 0.", 0)
                   ELSE pc' = "getopt" /\ UNCHANGED <<stdout, stderr, exit_code>>
    /\ UNCHANGED <<cli, rate, xstate, hist>>

\* '?' has no case in the switch: the loop goes on to the next option
UnknownOption ==
    /\ pc = "switch" /\ opt = "?"
    /\ pc' = "getopt"
    /\ UNCHANGED <<cli, cfg, xstate, hist, invalidArg, stdout, stderr, exit_code>>


----------------------------------------------------------------------------
(* The connection and the environment *)

\* what xcb_flush, and a wait for a reply, do to the output queue: a broken
\* connection delivers nothing
Delivered == IF has_error THEN wire ELSE wire \o outq
Queued(req) == IF has_error THEN outq ELSE Append(outq, req)

\* the peer closes the connection, or an I/O error breaks it
ConnectionError ==
    /\ conn = "open" /\ ~has_error
    /\ pc \notin {"exited", "crashed"}
    /\ has_error' = TRUE
    /\ UNCHANGED <<pc, cli, cfg, conn, xkb_ctrls, xinput_query, xkb_query, use_extension,
                   outq, wire, pending, event, flushes, stdout, stderr,
                   exit_code, invalidArg, hist>>

\* lines 183-186: xcb_connect, fatal when the connection has an error
Connect ==
    /\ pc = "connect"
    /\ \/ /\ conn' = "open"
          /\ pc' = "xinput"
          /\ UNCHANGED <<stdout, stderr, exit_code>>
       \/ /\ conn' = "failed"
          /\ err("Cannot connect to server.", 0)
    /\ UNCHANGED <<cli, cfg, xkb_ctrls, has_error, xinput_query, xkb_query, use_extension,
                   outq, wire, pending, event, flushes, invalidArg, hist>>

\* xcb_get_extension_data: NULL on a broken connection, else the server's
\* answer, with the major opcode of an extension that is present
ExtensionData(ext) ==
    IF has_error THEN {NullPtr}
    ELSE {Ptr([present |-> TRUE, major_opcode |-> ServerOpcode[ext]]),
          Ptr([present |-> FALSE, major_opcode |-> 0])}

\* the extension check of lines 189 and 193: q->present with q == NULL is a
\* read through a null pointer, which ends the process with SIGSEGV
CheckPresentLate(q, msg, next) ==
    IF q = NullPtr
    THEN pc' = "crashed" /\ UNCHANGED <<stdout, stderr, exit_code>>
    ELSE pc' = next /\ UNCHANGED <<stdout, stderr, exit_code>>

CheckPresent(q, msg, next) ==
    IF q = NullPtr
    THEN pc' = "crashed" /\ UNCHANGED <<stdout, stderr, exit_code>>
    ELSE IF ~Deref(q).present
    THEN err(msg, 0)
    ELSE pc' = next /\ UNCHANGED <<stdout, stderr, exit_code>>

\* lines 188-191
QueryXInput ==
    /\ pc = "xinput"
    /\ \E q \in ExtensionData("xinput") :
          /\ xinput_query' = q
          /\ CheckPresent(q, "Server does not support XInput.", "xkb")
    /\ UNCHANGED <<cli, cfg, conn, xkb_ctrls, has_error, xkb_query, use_extension, outq,
                   wire, pending, event, flushes, invalidArg, hist>>

\* lines 192-195
QueryXkb ==
    /\ pc = "xkb"
    /\ \E q \in ExtensionData("xkb") :
          /\ xkb_query' = q
          /\ CheckPresent(q, "Server does not support XKB.", "screen")
    /\ UNCHANGED <<cli, cfg, conn, xkb_ctrls, has_error, xinput_query, use_extension,
                   outq, wire, pending, event, flushes, invalidArg, hist>>

\* lines 197-202: the first screen of the setup, fatal when there is none
AcquireScreen ==
    /\ pc = "screen"
    /\ \/ pc' = "select" /\ UNCHANGED <<stdout, stderr, exit_code>>
       \/ err("Cannot acquire screen.", 0)
    /\ UNCHANGED <<cli, cfg, xstate, invalidArg, hist>>

\* lines 251-254: the hierarchy subscription is written to the output queue
SelectEvents ==
    /\ pc = "select"
    /\ outq' = Queued(SelectEventsRequest)
    /\ pc' = "flush"
    /\ UNCHANGED <<cli, cfg, conn, xkb_ctrls, has_error, xinput_query, xkb_query,
                   use_extension, wire, pending, event, flushes, stdout,
                   stderr, exit_code, invalidArg, hist>>

FlushSkipped ==
    /\ pc = "flush"
    /\ pc' = "use_extension"
    /\ UNCHANGED <<cli, cfg, xstate, stdout, stderr, exit_code, invalidArg, hist>>

\* line 255: xcb_flush
Flush ==
    /\ pc = "flush"
    /\ wire' = Delivered
    /\ outq' = <<>>
    /\ flushes' = flushes + 1
    /\ pc' = "use_extension"
    /\ UNCHANGED <<cli, cfg, conn, xkb_ctrls, has_error, xinput_query, xkb_query,
                   use_extension, pending, event, stdout, stderr, exit_code,
                   invalidArg, hist>>

\* line 260: the handshake request
UseExtension ==
    /\ pc = "use_extension"
    /\ outq' = Queued(UseExtensionRequest)
    /\ pending' = IF has_error THEN NULL ELSE "xkb_use_extension"
    /\ pc' = "use_extension_reply"
    /\ UNCHANGED <<cli, cfg, conn, xkb_ctrls, has_error, xinput_query, xkb_query,
                   use_extension, wire, event, flushes, stdout, stderr,
                   exit_code, invalidArg, hist>>

\* the outcomes of xcb_xkb_use_extension_reply: an error; a reply with
\* supported set or clear; neither reply nor error on a broken connection
HandshakeOutcomes ==
    IF has_error THEN {"noreply"} ELSE {"error", "unsupported", "supported"}

\* line 262: only an error is fatal
HandshakeFatal(o) == o = "error"

\* lines 261-265: wait for the reply
UseExtensionReply ==
    /\ pc = "use_extension_reply"
    /\ wire' = Delivered
    /\ outq' = <<>>
    /\ pending' = NULL
    /\ \E o \in HandshakeOutcomes :
          /\ use_extension' = o
          /\ IF HandshakeFatal(o)
             THEN \E e \in ErrorCodes : err("Cannot use XKB: %d", e)
             ELSE pc' = "startup_apply" /\ UNCHANGED <<stdout, stderr, exit_code>>
    /\ UNCHANGED <<cli, cfg, conn, xkb_ctrls, has_error, xinput_query, xkb_query, event,
                   flushes, invalidArg, hist>>


----------------------------------------------------------------------------
(* The applicator set_repeat_rate_and_delay, lines 60-95 *)

set_repeat_rate_and_delay_accumulating(r, d) ==
    /\ applyCalls' = applyCalls + 1
    /\ applyArgs' = <<r, d>>
    /\ IF r > MaxRate \/ r < MinRate
       THEN /\ lastApply' = [NoApply EXCEPT !.returned = TRUE]
            /\ pc' = "wait"
            /\ event' = NullPtr
            /\ UNCHANGED <<outq, pending, nSetControls>>
       ELSE /\ outq' = Queued(SetControlsRequest(r, d * (nSetControls + 1)))
            /\ pending' = IF has_error THEN NULL ELSE "xkb_set_controls"
            /\ nSetControls' = nSetControls + 1
            /\ lastApply' = [NoApply EXCEPT !.requests = 1]
            /\ pc' = "request_check"
            /\ UNCHANGED event

set_repeat_rate_and_delay_no_upper(r, d) ==
    /\ applyCalls' = applyCalls + 1
    /\ applyArgs' = <<r, d>>
    /\ IF r < MinRate
       THEN /\ lastApply' = [NoApply EXCEPT !.returned = TRUE]
            /\ pc' = "wait"
            /\ event' = NullPtr
            /\ UNCHANGED <<outq, pending, nSetControls>>
       ELSE /\ outq' = Queued(SetControlsRequest(r, d))
            /\ pending' = IF has_error THEN NULL ELSE "xkb_set_controls"
            /\ nSetControls' = nSetControls + 1
            /\ lastApply' = [NoApply EXCEPT !.requests = 1]
            /\ pc' = "request_check"
            /\ UNCHANGED event

set_repeat_rate_and_delay_unchecked(r, d) ==
    /\ applyCalls' = applyCalls + 1
    /\ applyArgs' = <<r, d>>
    /\ IF r > MaxRate \/ r < MinRate
       THEN /\ lastApply' = [NoApply EXCEPT !.returned = TRUE]
            /\ pc' = "wait"
            /\ event' = NullPtr
            /\ UNCHANGED <<outq, pending, nSetControls>>
       ELSE /\ outq' = Queued(SetControlsRequest(r, d))
            /\ pending' = IF has_error THEN NULL ELSE "xkb_set_controls"
            /\ nSetControls' = nSetControls + 1
            /\ lastApply' = [NoApply EXCEPT !.requests = 1, !.returned = TRUE,
                                            !.ret = TRUE]
            /\ pc' = "wait"
            /\ event' = NullPtr

\* lines 68-87: the range test (return false, back in the caller, which
\* frees its event and waits for the next), else the checked set-controls
\* request
set_repeat_rate_and_delay(r, d) ==
    /\ applyCalls' = applyCalls + 1
    /\ applyArgs' = <<r, d>>
    /\ IF r > MaxRate \/ r < MinRate
       THEN /\ lastApply' = [NoApply EXCEPT !.returned = TRUE]
            /\ pc' = "wait"
            /\ event' = NullPtr
            /\ UNCHANGED <<outq, pending, nSetControls>>
       ELSE /\ outq' = Queued(SetControlsRequest(r, d))
            /\ pending' = IF has_error THEN NULL ELSE "xkb_set_controls"
            /\ nSetControls' = nSetControls + 1
            /\ lastApply' = [NoApply EXCEPT !.requests = 1]
            /\ pc' = "request_check"
            /\ UNCHANGED event

\* what xcb_request_check returns: 0 for no error. A broken connection
\* reports none; a server whose handshake did not succeed refuses the
\* request (the Access error of the comment at lines 257-259)
RequestErrors ==
    IF has_error THEN {0}
    ELSE IF use_extension = "supported" THEN {0} \cup ErrorCodes
    ELSE ErrorCodes

ApplyFailedRetry(e) ==
    /\ stderr' = Append(stderr, Line("Cannot set keyboard repeat rate and delay: %d", e))
    /\ pc' = "loop_apply"
    /\ UNCHANGED <<event, stdout, exit_code>>

ApplyFailedFatal(e) ==
    /\ err("Cannot set keyboard repeat rate and delay: %d", e)
    /\ UNCHANGED event

\* lines 89-92 and the caller: the diagnostic, return false; the caller
\* ignores the result, frees the event and waits for the next one
ApplyFailed(e) ==
    /\ stderr' = Append(stderr, Line("Cannot set keyboard repeat rate and delay: %d", e))
    /\ pc' = "wait"
    /\ event' = NullPtr
    /\ UNCHANGED <<stdout, exit_code>>

\* what the server has made of the requests it was sent: a set-controls
\* request it answers without an error has changed the core keyboard
ServerAfter(reqs, e) ==
    IF e = 0 /\ reqs # <<>> /\ reqs[Len(reqs)].req = "xkb_set_controls"
    THEN ServerSetControls(xkb_ctrls, reqs[Len(reqs)])
    ELSE xkb_ctrls

\* lines 88-94: wait for the outcome of the request; return false with the
\* diagnostic on an error, else true
RequestCheck ==
    /\ pc = "request_check"
    /\ wire' = Delivered
    /\ outq' = <<>>
    /\ pending' = NULL
    /\ \E e \in RequestErrors :
          /\ lastApply' = [lastApply EXCEPT !.checked = TRUE, !.error = e,
                                            !.returned = TRUE, !.ret = (e = 0)]
          /\ xkb_ctrls' = ServerAfter(IF has_error THEN <<>> ELSE outq, e)
          /\ IF e # 0
             THEN ApplyFailed(e) /\ nFailed' = nFailed + 1
             ELSE /\ pc' = "wait"
                  /\ event' = NullPtr
                  /\ UNCHANGED <<stdout, stderr, exit_code, nFailed>>
    /\ UNCHANGED <<cli, cfg, conn, has_error, xinput_query, xkb_query,
                   use_extension, flushes, invalidArg, applyCalls, applyArgs,
                   nEvents, nQualifying, nSetControls>>

----------------------------------------------------------------------------
(* The startup apply and the main loop, lines 267-291 *)

StartupApplySkipped ==
    /\ pc = "startup_apply"
    /\ pc' = "wait"
    /\ UNCHANGED <<cli, cfg, xstate, stdout, stderr, exit_code, invalidArg, hist>>

\* line 268
StartupApply ==
    /\ pc = "startup_apply"
    /\ set_repeat_rate_and_delay(rate, delay)
    /\ UNCHANGED <<cli, cfg, conn, xkb_ctrls, has_error, xinput_query, xkb_query,
                   use_extension, wire, flushes, stdout, stderr, exit_code,
                   invalidArg, nEvents, nQualifying, nFailed>>

\* line 270: the next event, or NULL once the connection is broken
WaitForEvent ==
    /\ pc = "wait"
    /\ IF has_error
       THEN /\ event' = NullPtr
            /\ pc' = "final_flush"
            /\ UNCHANGED <<nEvents, nQualifying>>
       ELSE /\ nEvents < MaxEvents
            /\ \E e \in Events :
                  /\ event' = Ptr(e)
                  /\ nQualifying' = nQualifying
                        + (IF Qualifies(e, Deref(xinput_query).major_opcode) THEN 1 ELSE 0)
            /\ nEvents' = nEvents + 1
            /\ pc' = "classify"
    /\ UNCHANGED <<cli, cfg, conn, xkb_ctrls, has_error, xinput_query, xkb_query,
                   use_extension, outq, wire, pending, flushes, stdout, stderr,
                   exit_code, invalidArg, applyCalls, applyArgs, nFailed,
                   lastApply, nSetControls>>

ClassifyBreak ==
    /\ pc = "classify"
    /\ IF is_hierarchy_event(Deref(event), Deref(xinput_query))
       THEN pc' = "loop_apply" /\ UNCHANGED event
       ELSE pc' = "final_flush" /\ event' = NullPtr
    /\ UNCHANGED <<cli, cfg, conn, xkb_ctrls, has_error, xinput_query, xkb_query,
                   use_extension, outq, wire, pending, flushes, stdout, stderr,
                   exit_code, invalidArg, hist>>

\* lines 271 and 286: an event that is not accepted is freed
Classify ==
    /\ pc = "classify"
    /\ IF is_hierarchy_event(Deref(event), Deref(xinput_query))
       THEN pc' = "loop_apply" /\ UNCHANGED event
       ELSE pc' = "wait" /\ event' = NullPtr
    /\ UNCHANGED <<cli, cfg, conn, xkb_ctrls, has_error, xinput_query, xkb_query,
                   use_extension, outq, wire, pending, flushes, stdout, stderr,
                   exit_code, invalidArg, hist>>

LoopApplyDefaults ==
    /\ pc = "loop_apply"
    /\ set_repeat_rate_and_delay(default_rate, default_delay)
    /\ UNCHANGED <<cli, cfg, conn, xkb_ctrls, has_error, xinput_query, xkb_query,
                   use_extension, wire, flushes, stdout, stderr, exit_code,
                   invalidArg, nEvents, nQualifying, nFailed>>

\* line 274
LoopApply ==
    /\ pc = "loop_apply"
    /\ set_repeat_rate_and_delay(rate, delay)
    /\ UNCHANGED <<cli, cfg, conn, xkb_ctrls, has_error, xinput_query, xkb_query,
                   use_extension, wire, flushes, stdout, stderr, exit_code,
                   invalidArg, nEvents, nQualifying, nFailed>>

\* line 289
FinalFlush ==
    /\ pc = "final_flush"
    /\ wire' = Delivered
    /\ outq' = <<>>
    /\ flushes' = flushes + 1
    /\ pc' = "disconnect"
    /\ UNCHANGED <<cli, cfg, conn, xkb_ctrls, has_error, xinput_query, xkb_query,
                   use_extension, pending, event, stdout, stderr, exit_code,
                   invalidArg, hist>>

DisconnectLeak ==
    /\ pc = "disconnect"
    /\ exit_code' = EXIT_SUCCESS
    /\ pc' = "exited"
    /\ UNCHANGED <<cli, cfg, xstate, stdout, stderr, invalidArg, hist>>

\* lines 290-291: xcb_disconnect, return EXIT_SUCCESS
Disconnect ==
    /\ pc = "disconnect"
    /\ conn' = "closed"
    /\ exit_code' = EXIT_SUCCESS
    /\ pc' = "exited"
    /\ UNCHANGED <<cli, cfg, xkb_ctrls, has_error, xinput_query, xkb_query, use_extension,
                   outq, wire, pending, event, flushes, stdout, stderr,
                   invalidArg, hist>>

----------------------------------------------------------------------------
(* The specifications *)

GetoptArgs == Getopt(ArgStrings)

Next ==
    \/ GetoptArgs
    \/ CaseH
    \/ CaseV
    \/ CaseR
    \/ CaseD
    \/ UnknownOption
    \/ Connect
    \/ ConnectionError
    \/ QueryXInput
    \/ QueryXkb
    \/ AcquireScreen
    \/ SelectEvents
    \/ Flush
    \/ UseExtension
    \/ UseExtensionReply
    \/ StartupApply
    \/ RequestCheck
    \/ WaitForEvent
    \/ Classify
    \/ LoopApply
    \/ FinalFlush
    \/ Disconnect

Spec == Init /\ [][Next]_vars

\* the numeric arguments of the parsing specification: blanks or a sign, up
\* to MaxDigits digits, and a trailing character
ParseDigits == {"0", "1", "3", "5", "6"}
Prefixes == {<<>>, <<" ">>, <<"-">>}
Suffixes == {<<>>, <<"x">>}
AllStrings ==
    {p \o ds \o x : p \in Prefixes,
                    ds \in UNION {[1..n -> ParseDigits] : n \in 0..MaxDigits},
                    x \in Suffixes}

\* the first option of a command line, with any numeric argument
GetoptAny == optind = 0 /\ Getopt(AllStrings)

NextParse ==
    \/ GetoptAny
    \/ CaseH
    \/ CaseV
    \/ CaseR
    \/ CaseD
    \/ UnknownOption

SpecParse == Init /\ [][NextParse]_vars

\* main after a startup that succeeded with rate r and delay d, up to the
\* handshake: the options are read, both extensions are present, the
\* subscription and the handshake have reached the server
Started(r, d) ==
    /\ opt = "-1" /\ optarg = NullPtr
    /\ optind = (IF r = default_rate THEN 0 ELSE 1)
                + (IF d = default_delay THEN 0 ELSE 1)
    /\ rate = r /\ delay = d
    /\ conn = "open" /\ has_error = FALSE
    /\ xinput_query = Ptr([present |-> TRUE, major_opcode |-> ServerOpcode.xinput])
    /\ xkb_query = Ptr([present |-> TRUE, major_opcode |-> ServerOpcode.xkb])
    /\ use_extension = "supported"
    /\ outq = <<>> /\ pending = NULL
    /\ stdout = <<>> /\ stderr = <<>> /\ exit_code = -1
    /\ flushes = 1 /\ invalidArg = FALSE
    /\ nFailed = 0

\* every event the loop may be handed: any response type around the generic
\* one, with or without the sent-event bit, an extension of the server or
\* none, the event types around the hierarchy event, every combination of
\* the eight flags
AllEvents ==
    [response_type : {0, XCB_GE_GENERIC - 1, XCB_GE_GENERIC, XCB_GE_GENERIC + 1,
                      XCB_GE_GENERIC + SentEventBit},
     extension : ExtOpcodes \cup {0},
     event_type : {1, XCB_INPUT_HIERARCHY, XCB_INPUT_HIERARCHY + 1},
     flags : 0..(2 * SentEventBit - 1)]

\* the loop with its first event in hand, after a startup apply with the
\* defaults that succeeded
InitClassify ==
    /\ pc = "classify"
    /\ Started(default_rate, default_delay)
    /\ wire = <<SelectEventsRequest, UseExtensionRequest,
                SetControlsRequest(default_rate, default_delay)>>
    /\ xkb_ctrls = ServerSetControls(ServerControls,
                        SetControlsRequest(default_rate, default_delay))
    /\ applyCalls = 1 /\ applyArgs = <<default_rate, default_delay>>
    /\ nSetControls = 1
    /\ lastApply = [requests |-> 1, checked |-> TRUE, error |-> 0,
                    returned |-> TRUE, ret |-> TRUE]
    /\ nEvents = 1
    /\ \E e \in AllEvents :
          /\ event = Ptr(e)
          /\ nQualifying = IF Qualifies(e, ServerOpcode.xinput) THEN 1 ELSE 0

NextClassify == Classify

SpecClassify == InitClassify /\ [][NextClassify]_vars

\* the arguments of the applicator: its parameters are uint16_t, main passes
\* rates from 1 to 1000; the rates next to that range and the largest one
\* take the range test of lines 68-70
RateInputs == 0..(MaxRate + 1) \cup {UINT16_MAX}
DelayInputs == {MinDelay, default_delay, UINT16_MAX}

\* the startup apply about to be made
InitApplicator ==
    /\ pc = "startup_apply"
    /\ \E r \in RateInputs, d \in DelayInputs : Started(r, d)
    /\ wire = <<SelectEventsRequest, UseExtensionRequest>>
    /\ xkb_ctrls = ServerControls
    /\ event = NullPtr
    /\ applyCalls = 0 /\ applyArgs = <<>>
    /\ nSetControls = 0 /\ lastApply = NoApply
    /\ nEvents = 0 /\ nQualifying = 0

NextApplicator ==
    \/ StartupApply
    \/ RequestCheck
    \/ ConnectionError

SpecApplicator == InitApplicator /\ [][NextApplicator]_vars


----------------------------------------------------------------------------
(* Properties *)

\* the positions of the main loop (the state RUNNING)
LoopPcs == {"wait", "classify", "loop_apply", "request_check"}
\* the positions of startup before the first apply
StartupPcs == {"getopt", "switch", "connect", "xinput", "xkb", "screen",
               "select", "flush", "use_extension", "use_extension_reply",
               "startup_apply"}

\* the requests the daemon has written so far, delivered or still queued
Issued == wire \o outq
IssuedOf(kind) == {i \in 1..Len(Issued) : Issued[i].req = kind}
StderrOf(text) == {i \in 1..Len(stderr) : stderr[i].text = text}

\* the event being handled is a device-added hierarchy event
EventQualifies ==
    event # NullPtr /\ Qualifies(Deref(event), ServerOpcode.xinput)

\* C1: after startup, each event the classifier accepts (a hierarchy event
\* with master-added or slave-added set) leads to exactly one call of the
\* applicator, each rejected event to none, and every call is made with the
\* rate and delay fixed by the command line (70 and 250 without options).
C1_ApplyPerAcceptedEvent ==
    /\ optind = 0 => rate = 70 /\ delay = 250
    /\ applyCalls >= 1 => applyArgs = <<rate, delay>>
    /\ pc = "wait" => applyCalls = 1 + nQualifying
    /\ pc = "classify" =>
          applyCalls = 1 + nQualifying - (IF EventQualifies THEN 1 ELSE 0)
    /\ pc = "loop_apply" => EventQualifies /\ applyCalls = nQualifying
    /\ pc = "request_check" /\ nEvents >= 1 =>
          EventQualifies /\ applyCalls = 1 + nQualifying

\* scenario A: defaults; a slave-added event was applied, then an event with
\* only a removal flag was read and rejected
C1_Witness ==
    /\ pc = "wait" /\ optind = 0
    /\ nEvents = 2 /\ nQualifying = 1
    /\ applyCalls = 2 /\ applyArgs = <<70, 250>>
    /\ Cardinality(IssuedOf("xkb_set_controls")) = 2

\* C2: every set-controls request the daemon issues is preceded by a
\* use-extension handshake that succeeded: no error, a reply received, and
\* the extension reported as supported.
C2_ControlsOnlyAfterHandshake ==
    IssuedOf("xkb_set_controls") # {} => use_extension = "supported"

\* C3: startup calls the applicator exactly once before the first wait for
\* an event, whether or not an event ever arrives.
C3_OneApplyBeforeLoop ==
    /\ pc \in StartupPcs => applyCalls = 0
    /\ nEvents = 0 /\ pc \in {"request_check", "wait", "final_flush", "disconnect"}
          => applyCalls = 1
    /\ nEvents = 0 /\ pc = "exited" /\ conn = "closed" => applyCalls = 1

C3_Witness ==
    /\ pc = "wait" /\ nEvents = 0 /\ ~has_error
    /\ applyCalls = 1
    /\ Cardinality(IssuedOf("xkb_set_controls")) = 1

\* C4: a set-controls request answered by a protocol error only produces a
\* diagnostic: the process neither exits with a failure status nor leaves
\* the loop because of it, and later device-added events are still applied,
\* however many applies have failed.
C4_ApplyFailureNotFatal ==
    /\ Cardinality(StderrOf("Cannot set keyboard repeat rate and delay: %d")) = nFailed
    /\ nFailed >= 1 =>
          /\ exit_code # EXIT_FAILURE
          /\ pc # "crashed"
          /\ pc \notin LoopPcs => has_error
          /\ pc = "wait" => applyCalls = 1 + nQualifying
          /\ pc = "loop_apply" => applyCalls = nQualifying

\* the startup apply and the apply of a first event both failed, and the
\* apply of a second event is under way
C4_Witness ==
    /\ nFailed = 2 /\ pc = "request_check"
    /\ applyCalls = 3 /\ nQualifying = 2
    /\ exit_code = -1

\* C5: an invalid command-line argument (malformed or out-of-range number,
\* unknown option, option without its value) ends the process with status 1
\* before any connection to the server is opened.
C5_InvalidArgumentExits ==
    invalidArg /\ pc # "switch" =>
        pc = "exited" /\ exit_code = EXIT_FAILURE /\ conn = "none"

\* C6: a process that ends with a failure status has written its diagnostic
\* to standard error and nothing to standard output.
C6_FatalDiagnosticOnStderr ==
    exit_code = EXIT_FAILURE => stderr # <<>> /\ stdout = <<>>

\* C7: the loop is left only when the wait for an event returns no event;
\* after that no request is issued, the output is flushed, the connection is
\* closed and the process exits with status 0.
C7_LoopExit ==
    /\ [][/\ (pc \in LoopPcs /\ pc' \notin LoopPcs) =>
                pc = "wait" /\ has_error /\ event' = NullPtr /\ pc' = "final_flush"
          /\ pc \in {"final_flush", "disconnect"} =>
                /\ applyCalls' = applyCalls
                /\ Len(wire') + Len(outq') <= Len(wire) + Len(outq)
                /\ pc' \in {"final_flush", "disconnect", "exited"}
          /\ (pc = "final_flush" /\ pc' # pc) =>
                pc' = "disconnect" /\ flushes' = flushes + 1 /\ outq' = <<>>
          /\ (pc = "disconnect" /\ pc' # pc) =>
                pc' = "exited" /\ conn' = "closed" /\ exit_code' = EXIT_SUCCESS]_vars
    /\ [](pc = "exited" /\ applyCalls >= 1 =>
             exit_code = EXIT_SUCCESS /\ conn = "closed" /\ flushes = 2)

\* the loop ended after a failed apply and an event, and the process exited
C7_Witness ==
    /\ pc = "exited" /\ exit_code = EXIT_SUCCESS /\ conn = "closed"
    /\ nEvents >= 1 /\ nFailed >= 1 /\ flushes = 2

\* C8 as stated: every exit after the session was opened, normal or error,
\* flushes the output and closes the connection first.
C8_TeardownOnEveryExit ==
    pc = "exited" /\ conn \in {"open", "closed"} => conn = "closed"

\* C8 amended: the session is flushed and closed exactly on the normal exit
\* after the loop; an error exit after the session was opened leaves the
\* connection open, with no flush after the one of startup.
C8_TeardownOnNormalExitOnly ==
    pc \in {"exited", "crashed"} /\ conn \in {"open", "closed"} =>
        /\ conn = "closed" <=> exit_code = EXIT_SUCCESS
        /\ exit_code = EXIT_SUCCESS => flushes = 2 /\ outq = <<>>
        /\ exit_code # EXIT_SUCCESS => conn = "open" /\ flushes <= 1

\* the exit on a failed handshake
C8_Witness ==
    /\ pc = "exited" /\ exit_code = EXIT_FAILURE
    /\ use_extension = "error" /\ conn = "open"

\* the server answered the query for an extension: not present
Absent(q) == q # NullPtr /\ ~Deref(q).present

\* C9: when the input extension or the keyboard extension is absent, the
\* process exits with status 1 and the extension-missing diagnostic, and no
\* subscription, handshake or set-controls request has been written.
C9_MissingExtensionExits ==
    /\ Absent(xinput_query) =>
          /\ pc = "exited" /\ exit_code = EXIT_FAILURE
          /\ stderr # <<>>
          /\ stderr[Len(stderr)].text = "Server does not support XInput."
          /\ Issued = <<>> /\ use_extension = "none" /\ applyCalls = 0
    /\ Absent(xkb_query) =>
          /\ pc = "exited" /\ exit_code = EXIT_FAILURE
          /\ stderr # <<>>
          /\ stderr[Len(stderr)].text = "Server does not support XKB."
          /\ Issued = <<>> /\ use_extension = "none" /\ applyCalls = 0

C9_Witness ==
    /\ Absent(xkb_query) /\ ~Absent(xinput_query)
    /\ pc = "exited" /\ exit_code = EXIT_FAILURE

\* the outcome of an option: the option loop goes on, or the process ended
Accepted == pc = "getopt" /\ exit_code = -1
Rejected == pc = "exited" /\ exit_code = EXIT_FAILURE

\* C10: -r accepts exactly the integers 1..1000 and -d exactly the integers
\* 1..65535; the accepted value becomes the rate or the delay, and every
\* other argument ends the process with status 1.
C10_ArgumentValidation ==
    optarg # NullPtr /\ pc # "switch" =>
        /\ opt = "r" =>
              IF ValidRateArg(Deref(optarg))
              THEN Accepted /\ rate = IntegerValue(Deref(optarg))
              ELSE Rejected
        /\ opt = "d" =>
              IF ValidDelayArg(Deref(optarg))
              THEN Accepted /\ delay = IntegerValue(Deref(optarg))
              ELSE Rejected

C10_Witness ==
    /\ opt = "d" /\ optarg = Ptr(<<"6", "5", "5", "3", "5">>)
    /\ Accepted /\ delay = 65535


\* the set-controls requests the program has issued
SetControlsIssued == {Issued[i] : i \in IssuedOf("xkb_set_controls")}

\* C11: the classifier accepts an event exactly when its response type is the
\* generic event's, its extension is the input extension's major opcode, its
\* event type is the hierarchy event's and its flags hold master-added or
\* slave-added; it rejects every other event; an accepted event is left as
\* it was, and neither the connection, the server nor the settings change
C11_ClassifierExact ==
    [][pc = "classify" =>
          /\ pc' = "loop_apply"
                <=> Qualifies(Deref(event), Deref(xinput_query).major_opcode)
          /\ pc' # "loop_apply" => pc' = "wait"
          /\ pc' = "loop_apply" => event' = event
          /\ UNCHANGED <<conn, has_error, xinput_query, xkb_query,
                         use_extension, outq, wire, pending, xkb_ctrls, cfg,
                         stdout, stderr, exit_code>>]_vars

\* an event with the sent-event bit, slave-added and device-disabled together
\* has been accepted
C11_Witness ==
    /\ pc = "loop_apply"
    /\ Deref(event).response_type = XCB_GE_GENERIC + SentEventBit
    /\ Deref(event).flags = 132

\* C12: for every rate from 1 to 1000 the interval of the request is
\* floor(1000 / rate), the largest q with q * rate <= 1000 (14 for 70, 1000
\* for 1, 1 for 1000), and the delay of the request is the delay given
C12_IntervalIsFloor ==
    \A q \in SetControlsIssued :
       /\ rate \in 1..1000
       /\ q.repeatInterval * rate <= 1000
       /\ 1000 < (q.repeatInterval + 1) * rate
       /\ rate = 70 => q.repeatInterval = 14
       /\ rate = 1 => q.repeatInterval = 1000
       /\ rate = 1000 => q.repeatInterval = 1
       /\ q.repeatDelay = delay

\* rate 7 and the largest delay have reached the server as 142 and 65535
C12_Witness ==
    /\ rate = 7
    /\ \E i \in 1..Len(wire) :
          /\ wire[i].req = "xkb_set_controls"
          /\ wire[i].repeatInterval = 142
          /\ wire[i].repeatDelay = 65535


\* the set-controls requests that reached the server, and those of them the
\* server accepted
SetControlsDelivered == {i \in 1..Len(wire) : wire[i].req = "xkb_set_controls"}
Applied == Cardinality(SetControlsDelivered) - nFailed

\* the core keyboard after the server has accepted (rate, delay) once
AppliedOnce ==
    [enabledControls |-> ServerControls.enabledControls,
     repeatDelay |-> delay, repeatInterval |-> 1000 \div rate]

\* C13: however many times the server has accepted the settings, once or
\* more, its core keyboard is as it is after the first time: nothing
\* accumulates; and a later call the server accepts returns true as well
C13_Idempotent ==
    /\ Applied >= 1 => xkb_ctrls = AppliedOnce
    /\ Applied >= 2 /\ lastApply.returned /\ lastApply.error = 0 => lastApply.ret

\* the settings of the command line were accepted twice in a row
C13_Witness ==
    /\ pc = "wait" /\ Applied = 2 /\ nFailed = 0 /\ nSetControls = 2
    /\ rate = 1000 /\ lastApply.ret
    /\ xkb_ctrls.repeatInterval = 1

\* C14 as stated: the subscription names all devices on the root window and
\* selects no class of hierarchy change but the added ones
C14_AddedClassesOnly ==
    \A i \in IssuedOf("xi_select_events") :
       /\ Issued[i].deviceid = "XCB_INPUT_DEVICE_ALL"
       /\ Issued[i].window = "root"
       /\ SelectedClasses(Issued[i].mask) \subseteq {1, 4}

\* the hierarchy events of the input extension
IsHierarchyEvent(e) ==
    /\ e.response_type = 35
    /\ e.extension = ServerOpcode.xinput
    /\ e.event_type = 11

\* C14: the subscription is one mask for all devices on the root window
\* with the hierarchy bit alone, which selects hierarchy events of every
\* class of change; one is only read once the subscription has reached the
\* server, and only the classifier tells the added classes from the others
C14_SubscriptionSelectsHierarchy ==
    /\ \A i \in IssuedOf("xi_select_events") :
          /\ Issued[i].deviceid = "XCB_INPUT_DEVICE_ALL"
          /\ Issued[i].window = "root"
          /\ Issued[i].num_mask = 1 /\ Issued[i].mask_len = 1
          /\ Issued[i].mask = "XCB_INPUT_XI_EVENT_MASK_HIERARCHY"
          /\ SelectedClasses(Issued[i].mask) = {1, 2, 4, 8, 16, 32, 64, 128}
    /\ Cardinality(IssuedOf("xi_select_events")) <= 1
    /\ pc = "classify" /\ IsHierarchyEvent(Deref(event)) =>
          /\ wire # <<>> /\ wire[1].req = "xi_select_events"
          /\ FlagNames(Deref(event).flags) \subseteq SelectedClasses(wire[1].mask)
    /\ pc = "loop_apply" => FlagNames(Deref(event).flags) \cap {1, 4} # {}

\* a hierarchy event of a removed master device has been delivered
C14_Witness ==
    /\ pc = "classify"
    /\ IsHierarchyEvent(Deref(event))
    /\ Deref(event).flags = 2
    /\ wire[1].req = "xi_select_events"

\* the arguments of the set-controls call that the program passes as zero
ZeroArguments ==
    {"affectInternalRealMods", "internalRealMods", "affectIgnoreLockRealMods",
     "ignoreLockRealMods", "affectInternalVirtualMods", "internalVirtualMods",
     "affectIgnoreLockVirtualMods", "ignoreLockVirtualMods",
     "mouseKeysDfltBtn", "groupsWrap", "accessXOptions",
     "affectEnabledControls", "enabledControls", "slowKeysDelay",
     "debounceDelay", "mouseKeysDelay", "mouseKeysInterval",
     "mouseKeysTimeToMax", "mouseKeysMaxSpeed", "mouseKeysCurve",
     "accessXTimeout", "accessXTimeoutMask", "accessXTimeoutValues",
     "accessXTimeoutOptionsMask", "accessXTimeoutOptionsValues"}

\* C15: every set-controls request names the core keyboard (0x100), marks
\* the repeat-keys control (bit 0) and no other as changed, carries the
\* delay and the interval, has every other argument zero and a per-key
\* repeat bitmap of 32 zero bytes
C15_OnlyRepeatFields ==
    \A q \in SetControlsIssued :
       /\ q.deviceSpec = 256
       /\ q.changeControls = 1
       /\ q.repeatDelay = delay
       /\ q.repeatInterval = 1000 \div rate
       /\ \A f \in ZeroArguments : q[f] = 0
       /\ DOMAIN q = ZeroArguments \cup {"req", "deviceSpec", "changeControls",
                                         "repeatDelay", "repeatInterval",
                                         "perKeyRepeat"}
       /\ Len(q.perKeyRepeat) = 32
       /\ \A i \in 1..32 : q.perKeyRepeat[i] = 0

\* a request with a rate and a delay of the command line reached the server
C15_Witness ==
    /\ rate = 1 /\ delay = 65535
    /\ \E i \in SetControlsDelivered :
          wire[i].repeatInterval = 1000 /\ wire[i].repeatDelay = 65535


\* the last line of stderr is the applicator's diagnostic with code e
DiagnosticIsLast(e) ==
    /\ stderr # <<>>
    /\ stderr[Len(stderr)] =
          Line("Cannot set keyboard repeat rate and delay: %d", e)

\* C16: a call of the applicator that has returned has returned false
\* exactly when its rate was outside 1..1000, and then it made no request,
\* or when the server answered its request with a protocol error, which it
\* reports on stderr; in every other case it made exactly one set-controls
\* request, waited for its outcome and returned true, and on a connection
\* that is not broken that request is the last the server has received
C16_FailureCases ==
    lastApply.returned =>
       LET outside == applyArgs[1] < 1 \/ applyArgs[1] > 1000
       IN  /\ ~lastApply.ret <=> (outside \/ lastApply.error # 0)
           /\ outside =>
                 /\ lastApply.requests = 0 /\ ~lastApply.checked
                 /\ nSetControls = 0 /\ SetControlsIssued = {}
                 /\ stderr = <<>>
           /\ lastApply.error # 0 =>
                 /\ lastApply.requests = 1 /\ lastApply.checked
                 /\ DiagnosticIsLast(lastApply.error)
           /\ lastApply.ret =>
                 /\ lastApply.requests = 1 /\ lastApply.checked
                 /\ nSetControls = 1 /\ pending = NULL
                 /\ stderr = <<>>
                 /\ ~has_error =>
                       /\ wire[Len(wire)].req = "xkb_set_controls"
                       /\ wire[Len(wire)].repeatDelay = applyArgs[2]
                       /\ Cardinality(SetControlsDelivered) = 1

\* the three outcomes: rate 1001 was refused without a request
C16_Witness ==
    /\ lastApply.returned /\ ~lastApply.ret
    /\ applyArgs = <<1001, 250>>
    /\ pc = "wait" /\ wire = <<SelectEventsRequest, UseExtensionRequest>>

\* C17: no call of the applicator makes more than one set-controls request,
\* failed or not, and none is repeated: between the iterations of the loop
\* and after it the requests made number 1 + the qualifying events read;
\* while such an event is being handled its request is the one still to
\* make; on a connection that is not broken all of them are on the
\* connection
C17_OneRequestPerApply ==
    /\ lastApply.requests <= 1
    /\ nSetControls <= applyCalls
    /\ applyCalls = 0 => nSetControls = 0
    /\ pc \in {"wait", "request_check", "final_flush", "disconnect"} =>
          nSetControls = 1 + nQualifying
    /\ pc = "exited" /\ applyCalls >= 1 => nSetControls = 1 + nQualifying
    /\ pc \in {"classify", "loop_apply"} =>
          nSetControls = 1 + nQualifying - (IF EventQualifies THEN 1 ELSE 0)
    /\ ~has_error => Cardinality(IssuedOf("xkb_set_controls")) = nSetControls

\* two qualifying events after a startup apply that failed, three requests
C17_Witness ==
    /\ pc = "wait" /\ ~has_error
    /\ nQualifying = 2 /\ nFailed >= 1
    /\ Cardinality(SetControlsDelivered) = 3

\* C18: a request with an answer to wait for (the handshake, a checked
\* set-controls) is outstanding only while the program waits for that
\* answer; no request is made and no event is waited for with one
\* outstanding; the subscription, which has no answer, is flushed before
\* the next request; a call that made a request has waited for its outcome
C18_NoOverlap ==
    /\ pending # NULL => pc \in {"use_extension_reply", "request_check"}
    /\ pending = "xkb_use_extension" => pc = "use_extension_reply"
    /\ pending = "xkb_set_controls" => pc = "request_check"
    /\ pc \in {"select", "flush", "use_extension", "startup_apply",
               "loop_apply", "wait", "classify"} => pending = NULL
    /\ pc \in {"use_extension", "startup_apply", "loop_apply", "wait",
               "classify"} => outq = <<>>
    /\ Len(outq) <= 1
    /\ lastApply.returned /\ lastApply.requests = 1 => lastApply.checked

\* the loop waits for an event with two set-controls requests answered
C18_Witness ==
    /\ pc = "wait" /\ ~has_error /\ pending = NULL
    /\ Cardinality(SetControlsDelivered) = 2
    /\ lastApply.checked

\* the place of a request in the order of startup
Rank(q) ==
    IF q.req = "xi_select_events" THEN 1
    ELSE IF q.req = "xkb_use_extension" THEN 2
    ELSE 3

\* C19: the requests leave in the order subscription, handshake,
\* set-controls; the subscription is flushed before the handshake is made;
\* a set-controls request is only made with the subscription and the
\* handshake at the server; so an event is only read after the startup
\* apply and with the subscription in place
C19_StartupOrder ==
    /\ \A i, j \in 1..Len(Issued) :
          i < j => Rank(Issued[i]) <= Rank(Issued[j])
    /\ Cardinality(IssuedOf("xi_select_events")) <= 1
    /\ Cardinality(IssuedOf("xkb_use_extension")) <= 1
    /\ pc = "use_extension" =>
          /\ outq = <<>> /\ flushes = 1
          /\ ~has_error => wire = <<SelectEventsRequest>>
    /\ IssuedOf("xkb_set_controls") # {} =>
          /\ Len(wire) >= 2
          /\ wire[1] = SelectEventsRequest
          /\ wire[2] = UseExtensionRequest
    /\ pc \in {"classify", "loop_apply"} =>
          /\ applyCalls >= 1
          /\ Len(wire) >= 3
          /\ wire[1] = SelectEventsRequest
          /\ wire[3].req = "xkb_set_controls"

\* the first event after the startup apply is a device-added hierarchy event
C19_Witness ==
    /\ pc = "classify" /\ nEvents = 1 /\ EventQualifies
    /\ Len(wire) = 3
    /\ wire[1].req = "xi_select_events"
    /\ wire[2].req = "xkb_use_extension"
    /\ wire[3].req = "xkb_set_controls"

\* C20: every call of the applicator is made with 1 <= rate <= 1000 and
\* 1 <= delay <= 65535: the defaults, or the value of the last -r and -d
\* that main accepted; so every call gets past the range test and makes its
\* request, and the interval of every request is between 1 and 1000
C20_ApplyArgumentsInRange ==
    /\ pc \in {"connect", "startup_apply", "loop_apply"} =>
          /\ 1 <= rate /\ rate <= 1000
          /\ 1 <= delay /\ delay <= 65535
    /\ pc = "getopt" /\ opt = "r" => rate = IntegerValue(Deref(optarg))
    /\ pc = "getopt" /\ opt = "d" => delay = IntegerValue(Deref(optarg))
    /\ applyCalls >= 1 =>
          /\ applyArgs = <<rate, delay>>
          /\ 1 <= applyArgs[1] /\ applyArgs[1] <= 1000
          /\ 1 <= applyArgs[2] /\ applyArgs[2] <= 65535
    /\ nSetControls = applyCalls
    /\ lastApply.returned => lastApply.requests = 1
    /\ \A q \in SetControlsIssued :
          1 <= q.repeatInterval /\ q.repeatInterval <= 1000

\* two -r options: the applicator was called with the second rate
C20_Witness ==
    /\ optind = 2 /\ delay = default_delay
    /\ pc = "request_check"
    /\ applyArgs = <<1000, default_delay>>
    /\ SetControlsIssued # {}

=============================================================================
